---- MODULE Spec2Model ----
(***************************************************************************)
(* State-machine model of the Frappe mini-app template (your_app):         *)
(* the create_sample API handler and its helpers, the Sample Doc service   *)
(* and validation hook, the background job, the HTTP connector and the     *)
(* paginated report.  The host framework (permission check, store, queue,  *)
(* error log, HTTP transport) is the environment: its answers are inputs   *)
(* chosen with \E in the actions.                                          *)
(***************************************************************************)
EXTENDS Integers, Sequences, FiniteSets, TLC

VARIABLES docs, queue, wk, res

vars == <<docs, queue, wk, res>>

(* ------------------------------ bounds --------------------------------- *)
MaxDocs == 2
MaxQueue == 1
MaxTime == 1

(* --------------------------- program constants ------------------------- *)
MaxTitleLen == 255
DefaultPageLength == 20
JobTimeout == 300

(* ------------------------------ values --------------------------------- *)
\* Python None for an Optional[str] argument; strings are sequences of characters.
None == <<"<None>">>
Unset == "<unset>"
Rep(n, c) == [i \in 1..n |-> c]
T255 == Rep(MaxTitleLen, "a")
T256 == Rep(MaxTitleLen + 1, "a")
TitleArgs == {None, <<>>, <<"a">>, T255, T256}
StatusArgs == {Unset, "Open", "Closed"}
Workers == {"w1", "w2"}
NoName == 0
DocNames == 1..MaxDocs

\* Python truthiness of an Optional[str]: None and "" are falsy.
Truthy(v) == v # None /\ v # <<>>
Max(a, b) == IF a > b THEN a ELSE b
Min(a, b) == IF a < b THEN a ELSE b

(* ------------------- utils/errors.py (not in src/) --------------------- *)
ERROR_CODES ==
    [PERMISSION_DENIED |-> "PERMISSION_DENIED",
     VALIDATION_ERROR |-> "VALIDATION_ERROR",
     APP_ERROR |-> "APP_ERROR",
     INTEGRATION_ERROR |-> "INTEGRATION_ERROR"]
ok(message, data) == [success |-> TRUE, message |-> message, data |-> data]
error(message, data, code) ==
    [success |-> FALSE, message |-> message, data |-> data, code |-> code]

(* ------------------------- exceptions ---------------------------------- *)
NoExc == [cls |-> "None", msg |-> <<>>]
Exc(cls, msg) == [cls |-> cls, msg |-> msg]
\* frappe.exceptions / requests.exceptions class hierarchy (direct base class).
BaseOf(cls) ==
    CASE cls = "DoesNotExistError" -> "ValidationError"
      [] cls = "ValidationError" -> "Exception"
      [] cls = "PermissionError" -> "Exception"
      [] cls = "OperationalError" -> "Exception"
      [] cls = "Timeout" -> "RequestException"
      [] cls = "ConnectionError" -> "RequestException"
      [] cls = "HTTPError" -> "RequestException"
      [] cls = "JSONDecodeError" -> "RequestException"
      [] cls = "RequestException" -> "Exception"
      [] OTHER -> "Exception"
RECURSIVE IsInstance(_, _)
IsInstance(cls, base) ==
    IF cls = base THEN TRUE
    ELSE IF cls = "Exception" \/ cls = "None" THEN FALSE
    ELSE IsInstance(BaseOf(cls), base)
\* frappe.throw(msg): raises exc(msg) with exc defaulting to ValidationError.
throw(msg) == Exc("ValidationError", msg)

(* ------------------------ utils/permissions.py ------------------------- *)
\* Variant: the permission check never raises.
require_permission_Skipped(has) == NoExc
\* has is the answer of frappe.has_permission(doctype, perm, doc=docname).
require_permission(has) ==
    IF ~has THEN throw(<<ERROR_CODES["PERMISSION_DENIED"]>>) ELSE NoExc

(* ------------------------ utils/validation.py -------------------------- *)
PayloadGet(payload, f) == IF f \in DOMAIN payload THEN payload[f] ELSE None
MissingFields(payload, fields) ==
    LET Falsy(f) == ~Truthy(PayloadGet(payload, f)) IN SelectSeq(fields, Falsy)
require_fields(payload, fields) ==
    LET missing == MissingFields(payload, fields)
    IN  IF missing # <<>>
        THEN throw(<<ERROR_CODES["VALIDATION_ERROR"], ": missing fields: ">> \o missing)
        ELSE NoExc

(* --------------------- doctype/sample_doc/sample_doc.py ---------------- *)
\* Variant: the hook without its length check.
validate_NoLengthCheck(title) ==
    IF ~Truthy(title) THEN throw(<<"Title is required">>) ELSE NoExc
validate(title) ==
    IF ~Truthy(title) THEN throw(<<"Title is required">>)
    ELSE IF Truthy(title) /\ Len(title) > MaxTitleLen
         THEN throw(<<"Title must be 255 characters or fewer">>)
         ELSE NoExc

(* ------------------------------ store ---------------------------------- *)
\* docs is the Sample Doc table: docs[n] is the record named n.
RECURSIVE MaxModified(_)
MaxModified(d) ==
    IF d = <<>> THEN 0 ELSE Max(d[Len(d)].modified, MaxModified(SubSeq(d, 1, Len(d) - 1)))
\* The timestamp the store gives a write: a clock that never goes back, and
\* that stands still at MaxTime (later writes then share a timestamp).
Now(d) == IF d = <<>> THEN 0 ELSE Min(MaxModified(d) + 1, MaxTime)

\* Document.insert(): permission check, naming, validate hook, database write.
\* has: the actor's "create" capability; dbOk: whether the database write succeeds.
insert(d, title, status, has, dbOk) ==
    IF ~has
    THEN [exc |-> Exc("PermissionError", <<"No permission for Sample Doc">>),
          docs |-> d, name |-> NoName, hook |-> FALSE]
    ELSE IF validate(title) # NoExc
    THEN [exc |-> validate(title), docs |-> d, name |-> NoName, hook |-> TRUE]
    ELSE IF ~dbOk
    THEN [exc |-> Exc("OperationalError", <<"database write failed">>),
          docs |-> d, name |-> NoName, hook |-> TRUE]
    ELSE [exc |-> NoExc,
          docs |-> Append(d, [title |-> title, status |-> status, modified |-> Now(d)]),
          name |-> Len(d) + 1, hook |-> TRUE]

(* --------------------- services/sample_service.py ---------------------- *)
\* Variant: the status argument is dropped and the default always used.
DefaultStatus_AlwaysOpen(status) == "Open"
DefaultStatus(status) == IF status = Unset THEN "Open" ELSE status
create_sample_doc(d, title, status, has, dbOk) ==
    IF ~Truthy(title)
    THEN [exc |-> throw(<<"Title is required">>), docs |-> d, name |-> NoName,
          hook |-> FALSE]
    ELSE insert(d, title, DefaultStatus(status), has, dbOk)

(* -------------------------- utils/logging.py --------------------------- *)
\* log_error writes to the logger and to frappe.log_error; logOk is whether
\* that path succeeds.  Nothing in log_error catches a failure of it.
log_error(title, logOk) ==
    IF logOk THEN [exc |-> NoExc, logged |-> <<title>>]
    ELSE [exc |-> Exc("OperationalError", <<"error log write failed">>),
          logged |-> <<>>]

(* -------------------------------- api.py ------------------------------- *)
\* The try block of create_sample: the first failing step ends it.
CreateSampleTry(d, title, status, has, dbOk) ==
    IF require_permission(has) # NoExc
    THEN [exc |-> require_permission(has), docs |-> d, name |-> NoName,
          hook |-> FALSE, calls |-> <<"require_permission">>]
    ELSE IF require_fields([title |-> title], <<"title">>) # NoExc
    THEN [exc |-> require_fields([title |-> title], <<"title">>), docs |-> d,
          name |-> NoName, hook |-> FALSE,
          calls |-> <<"require_permission", "require_fields">>]
    ELSE LET r == create_sample_doc(d, title, status, has, dbOk)
         IN  [exc |-> r.exc, docs |-> r.docs, name |-> r.name, hook |-> r.hook,
              calls |-> <<"require_permission", "require_fields", "create_sample_doc">>]

\* The except clauses, tried in source order.
CreateSampleExcept(e, logOk) ==
    LET branch == IF IsInstance(e.cls, "PermissionError") THEN "permission"
                  ELSE IF IsInstance(e.cls, "ValidationError") THEN "validation"
                  ELSE "other"
        title == CASE branch = "permission" -> "Create Sample - permission denied"
                   [] branch = "validation" -> "Create Sample - validation"
                   [] OTHER -> "Create Sample failed"
        lg == log_error(title, logOk)
        env == CASE branch = "permission" ->
                      error("Permission denied", [detail |-> e.msg],
                            ERROR_CODES["PERMISSION_DENIED"])
                 [] branch = "validation" ->
                      error("Validation failed", [detail |-> e.msg],
                            ERROR_CODES["VALIDATION_ERROR"])
                 [] OTHER ->
                      error("Create Sample failed", [detail |-> e.msg],
                            ERROR_CODES["APP_ERROR"])
    IN  IF lg.exc # NoExc
        THEN [outcome |-> "raise", exc |-> lg.exc, logged |-> lg.logged]
        ELSE [outcome |-> "return", exc |-> NoExc, env |-> env, logged |-> lg.logged]

\* Whether a call reaches the database write / the error log, so that the
\* environment's answer is asked for only where the code asks.
DbReached(title, has) == has /\ Truthy(title) /\ validate(title) = NoExc
Asked(reached, answer) == reached \/ answer

create_sample(title, status, has, dbOk, logOk) ==
    LET r == CreateSampleTry(docs, title, status, has, dbOk)
        h == IF r.exc = NoExc
             THEN [outcome |-> "return", exc |-> NoExc,
                   env |-> ok("Created", [name |-> r.name]), logged |-> <<>>]
             ELSE CreateSampleExcept(r.exc, logOk)
    IN  /\ Len(r.docs) <= MaxDocs
        /\ Asked(DbReached(title, has), dbOk)
        /\ Asked(r.exc # NoExc, logOk)
        /\ docs' = r.docs
        /\ res' = [op |-> "create_sample", title |-> title, status |-> status,
                   has |-> has, dbOk |-> dbOk, logOk |-> logOk, calls |-> r.calls,
                   hook |-> r.hook, tryExc |-> r.exc] @@ h
        /\ UNCHANGED <<queue, wk>>

\* The service called directly (no API envelope): its error reaches the caller.
call_create_sample_doc(title, status, has, dbOk) ==
    LET r == create_sample_doc(docs, title, status, has, dbOk)
    IN  /\ Len(r.docs) <= MaxDocs
        /\ Asked(DbReached(title, has), dbOk)
        /\ docs' = r.docs
        /\ res' = [op |-> "create_sample_doc", title |-> title, status |-> status,
                   has |-> has, dbOk |-> dbOk, hook |-> r.hook, name |-> r.name,
                   exc |-> r.exc,
                   outcome |-> IF r.exc = NoExc THEN "return" ELSE "raise"]
        /\ UNCHANGED <<queue, wk>>

(* -------------------- integrations/sample_connector.py ----------------- *)
IdArgs == {None, <<>>, <<"x">>}
\* What requests.get can come back with: a transport failure or a response.
HttpOutcomes ==
    {[kind |-> k, status |-> 0, json |-> FALSE] : k \in {"Timeout", "ConnectionError"}}
    \cup {[kind |-> "response", status |-> st, json |-> j] :
             st \in {200, 204, 304, 404, 500}, j \in BOOLEAN}
\* Response.raise_for_status(): HTTPError for 4xx and 5xx, nothing otherwise.
raise_for_status(http) ==
    IF http.status >= 400 /\ http.status < 600
    THEN Exc("HTTPError", <<"bad status">>) ELSE NoExc
\* The try block of fetch_status.
FetchTry(http) ==
    IF http.kind # "response" THEN Exc(http.kind, <<"transport failure">>)
    ELSE IF raise_for_status(http) # NoExc THEN raise_for_status(http)
    ELSE IF ~http.json THEN Exc("JSONDecodeError", <<"invalid json">>)
    ELSE NoExc

fetch_status(external_id, http, logOk) ==
    LET e == FetchTry(http)
        lg == log_error("Integration fetch failed", logOk)
        r == IF ~Truthy(external_id)
             THEN [requests |-> 0, outcome |-> "raise", logged |-> <<>>,
                   exc |-> throw(<<"external_id is required">>),
                   calls |-> <<"throw">>]
             ELSE IF e = NoExc
             THEN [requests |-> 1, outcome |-> "return", logged |-> <<>>,
                   exc |-> NoExc, calls |-> <<"requests.get">>]
             ELSE IF ~IsInstance(e.cls, "RequestException")
             THEN [requests |-> 1, outcome |-> "raise", logged |-> <<>>,
                   exc |-> e, calls |-> <<"requests.get">>]
             ELSE IF lg.exc # NoExc
             THEN [requests |-> 1, outcome |-> "raise", logged |-> lg.logged,
                   exc |-> lg.exc, calls |-> <<"requests.get", "log_error">>]
             ELSE [requests |-> 1, outcome |-> "raise", logged |-> lg.logged,
                   exc |-> throw(<<ERROR_CODES["INTEGRATION_ERROR"],
                                   ": failed to fetch external status">>),
                   calls |-> <<"requests.get", "log_error", "throw">>]
    IN  /\ Asked(Truthy(external_id), http = [kind |-> "response", status |-> 200, json |-> TRUE])
        /\ Asked(Truthy(external_id) /\ e # NoExc, logOk)
        /\ res' = [op |-> "fetch_status", external_id |-> external_id, http |-> http,
                   logOk |-> logOk] @@ r
        /\ UNCHANGED <<docs, queue, wk>>

(* --------------------- background_jobs/sample_job.py ------------------- *)
RunSampleJob == "your_app.background_jobs.sample_job.run_sample_job"
\* frappe.enqueue(...): one job record appended to the queue; nothing runs yet.
enqueue(q, method, queueName, timeout, docname) ==
    Append(q, [method |-> method, queue |-> queueName, timeout |-> timeout,
               docname |-> docname])
enqueue_sample_job(docname) ==
    /\ Len(queue) < MaxQueue
    /\ queue' = enqueue(queue, RunSampleJob, "default", JobTimeout, docname)
    /\ res' = [op |-> "enqueue_sample_job", docname |-> docname, outcome |-> "return"]
    /\ UNCHANGED <<docs, wk>>

Exists(d, n) == n \in 1..Len(d)
\* Variant: the status written with doc.save(), which runs the validate hook.
db_set_ViaSave(d, n, value) ==
    [docs |-> [d EXCEPT ![n] = [@ EXCEPT !.status = value, !.modified = Now(d)]],
     hook |-> TRUE]
\* Document.db_set(field, value): writes the one column (and modified) of the
\* row named n; no validate hook, no other row touched.
db_set(d, n, value) ==
    [docs |-> [d EXCEPT ![n] = [@ EXCEPT !.status = value, !.modified = Now(d)]],
     hook |-> FALSE]

\* run_sample_job, first statement: a worker takes the head job and loads
\* the record; frappe.get_doc raises DoesNotExistError for a missing name.
run_sample_job_get_doc(w) ==
    /\ wk[w].pc = "idle"
    /\ queue # <<>>
    /\ queue' = Tail(queue)
    /\ LET n == Head(queue).docname
       IN  IF Exists(docs, n)
           THEN /\ wk' = [wk EXCEPT ![w] = [pc |-> "loaded", docname |-> n]]
                /\ res' = [op |-> "run_sample_job", step |-> "get_doc",
                           outcome |-> "loaded", hook |-> FALSE, exc |-> NoExc]
           ELSE /\ wk' = wk
                /\ res' = [op |-> "run_sample_job", step |-> "get_doc",
                           outcome |-> "raise", hook |-> FALSE,
                           exc |-> Exc("DoesNotExistError", <<"Sample Doc not found">>)]
    /\ UNCHANGED docs

\* run_sample_job, second statement: doc.db_set("status", "Closed").
run_sample_job_db_set(w) ==
    /\ wk[w].pc = "loaded"
    /\ LET r == db_set(docs, wk[w].docname, "Closed")
       IN  /\ docs' = r.docs
           /\ res' = [op |-> "run_sample_job", step |-> "db_set",
                      outcome |-> "return", hook |-> r.hook, exc |-> NoExc]
    /\ wk' = [wk EXCEPT ![w] = [pc |-> "idle", docname |-> NoName]]
    /\ UNCHANGED queue

(* ------------------ report/sample_report/sample_report.py ------------- *)
\* A filters dict is a function from the keys it holds to their values;
\* dict.get(k) is an option: {} for a missing key (None), {v} otherwise.
Get(f, k) == IF k \in DOMAIN f THEN {f[k]} ELSE {}
Val(opt) == CHOOSE x \in opt : TRUE
TruthyStr(opt) == opt # {} /\ Val(opt) # ""
TruthySeq(opt) == opt # {} /\ Val(opt) # <<>>
TruthyInt(opt) == opt # {} /\ Val(opt) # 0
\* int(filters.get(k) or default)
IntOr(opt, default) == IF TruthyInt(opt) THEN Val(opt) ELSE default

\* SQL LIKE: % matches any run of characters, _ exactly one.
RECURSIVE Like(_, _)
Like(text, pat) ==
    IF pat = <<>> THEN text = <<>>
    ELSE IF Head(pat) = "%"
         THEN Like(text, Tail(pat)) \/ (text # <<>> /\ Like(Tail(text), pat))
    ELSE IF text = <<>> THEN FALSE
    ELSE (Head(pat) = "_" \/ Head(pat) = Head(text)) /\ Like(Tail(text), Tail(pat))

\* where_clauses: the conjunction of the clauses the filters switch on.
Where(row, filters) ==
    /\ TruthyStr(Get(filters, "status")) => row.status = filters["status"]
    /\ TruthySeq(Get(filters, "title")) =>
          Like(row.title, <<"%">> \o filters["title"] \o <<"%">>)

\* ORDER BY modified DESC; rows with equal modified come in an order the
\* database picks, here by name, ascending or descending.
Before(d, i, j, tie) ==
    \/ d[i].modified > d[j].modified
    \/ d[i].modified = d[j].modified /\ (IF tie = "asc" THEN i < j ELSE i > j)
Matching(d, filters) == {i \in 1..Len(d) : Where(d[i], filters)}
Rank(d, S, i, tie) == 1 + Cardinality({j \in S : Before(d, j, i, tie)})
Ordered(d, filters, tie) ==
    LET S == Matching(d, filters)
    IN  [k \in 1..Cardinality(S) |->
            LET i == CHOOSE x \in S : Rank(d, S, x, tie) = k
            IN  [name |-> i, title |-> d[i].title, status |-> d[i].status]]
\* query.limit(n).offset(o)
LimitOffset(rows, n, o) == SubSeq(rows, o + 1, Min(o + n, Len(rows)))

Page(filters) ==
    LET page == IntOr(Get(filters, "page"), 1) IN IF page < 1 THEN 1 ELSE page
PageLength(filters) ==
    LET page_length == IntOr(Get(filters, "page_length"), DefaultPageLength)
    IN  IF page_length < 1 THEN DefaultPageLength ELSE page_length
\* Variant: the offset computed from page instead of page - 1.
Offset_FromPage(filters) == Page(filters) * PageLength(filters)
Offset(filters) == (Page(filters) - 1) * PageLength(filters)
\* Variant: the count query built without the title clause.
TotalCount_StatusOnly(d, filters) ==
    Cardinality({i \in 1..Len(d) :
        TruthyStr(Get(filters, "status")) => d[i].status = filters["status"]})
\* count_query: COUNT(*) under the same where clauses, no limit.
TotalCount(d, filters) == Cardinality({i \in 1..Len(d) : Where(d[i], filters)})

Columns ==
    <<[label |-> "Title", fieldname |-> "title", fieldtype |-> "Data", width |-> 200],
      [label |-> "Status", fieldname |-> "status", fieldtype |-> "Data", width |-> 100]>>

execute(filters, tie) ==
    LET rows == Ordered(docs, filters, tie)
        data == LimitOffset(rows, PageLength(filters), Offset(filters))
        report_summary == <<[label |-> "Total Records",
                             value |-> TotalCount(docs, filters),
                             indicator |-> "blue"]>>
    IN  /\ res' = [op |-> "execute", filters |-> filters, rows |-> rows,
                   columns |-> Columns, data |-> data,
                   report_summary |-> report_summary]
        /\ UNCHANGED <<docs, queue, wk>>

(* ------------------------------ behaviours ----------------------------- *)
Init ==
    /\ docs = <<>>
    /\ queue = <<>>
    /\ wk = [w \in Workers |-> [pc |-> "idle", docname |-> NoName]]
    /\ res = [op |-> "none"]

ApiCreateSample ==
    \E title \in TitleArgs, status \in StatusArgs, has \in BOOLEAN,
       dbOk \in BOOLEAN, logOk \in BOOLEAN :
        create_sample(title, status, has, dbOk, logOk)

ConnFetchStatus ==
    \E external_id \in IdArgs, http \in HttpOutcomes, logOk \in BOOLEAN :
        fetch_status(external_id, http, logOk)

\* Requests: the API handler and the connector.
Next == ApiCreateSample \/ ConnFetchStatus

Spec == Init /\ [][Next]_vars

\* Requests and background jobs interleaved: the enqueue call, two workers
\* and the two creation calls, with an empty, a valid and an over-long title.
\* The API call is made by a permitted actor with the store and the error
\* log answering (its other outcomes are those of Spec); the service is
\* called with the capability and, for the valid title, without it.
JobTitleArgs == {<<>>, <<"a">>, T256}
JobsCreateSample ==
    \E title \in JobTitleArgs :
        create_sample(title, Unset, TRUE, TRUE, TRUE)
JobsCreateSampleDoc ==
    \E title \in JobTitleArgs, has \in BOOLEAN :
        /\ has \/ title = <<"a">>
        /\ call_create_sample_doc(title, Unset, has, TRUE)
Enqueue == \E n \in DocNames : enqueue_sample_job(n)
WorkerGetDoc == \E w \in Workers : run_sample_job_get_doc(w)
WorkerDbSet == \E w \in Workers : run_sample_job_db_set(w)

NextJobs ==
    JobsCreateSample \/ JobsCreateSampleDoc \/ Enqueue \/ WorkerGetDoc \/ WorkerDbSet

SpecJobs == Init /\ [][NextJobs]_vars

\* A worker that can take or finish a job eventually does.
FairJobs ==
    /\ SpecJobs
    /\ \A w \in Workers :
          WF_vars(run_sample_job_get_doc(w)) /\ WF_vars(run_sample_job_db_set(w))

\* The report run once on a drawn store and a drawn filters dict: the store
\* holds n rows whose titles, statuses and timestamps follow a pattern.
MaxRows == 22
RowTitle(i) == CASE i % 3 = 0 -> <<"a">> [] i % 3 = 1 -> <<"a", "b">> [] OTHER -> <<"b">>
RowStatus(i) == IF i % 4 = 0 THEN "Closed" ELSE "Open"
ReportStore(n, ties) ==
    [i \in 1..n |-> [title |-> RowTitle(i), status |-> RowStatus(i),
                     modified |-> IF ties THEN (i * 5) % 7 ELSE (i * 5) % (n + 1)]]
ReportStores == {ReportStore(n, ties) : n \in {0, 3, 11, MaxRows}, ties \in BOOLEAN}
Opt(k, opt) == IF opt = {} THEN <<>> ELSE k :> Val(opt)
StatusFilters == {{}, {""}, {"Open"}, {"Closed"}}
TitleFilters == {{}, {<<>>}, {<<"a">>}, {<<"b", "a">>}, {<<"_", "b">>}}
PageFilters == {{}, {-1}, {0}, {1}, {2}, {3}}
PageLengthFilters == {{}, {-3}, {0}, {1}, {5}, {21}}
FilterDicts ==
    {Opt("status", s) @@ Opt("title", t) @@ Opt("page", p) @@ Opt("page_length", l) :
        s \in StatusFilters, t \in TitleFilters, p \in PageFilters,
        l \in PageLengthFilters}

InitReport ==
    /\ docs \in ReportStores
    /\ queue = <<>>
    /\ wk = [w \in Workers |-> [pc |-> "idle", docname |-> NoName]]
    /\ res \in {[op |-> "call", filters |-> f, tie |-> tie] :
                   f \in FilterDicts, tie \in {"asc", "desc"}}

ReportExecute ==
    /\ res.op = "call"
    /\ execute(res.filters, res.tie)

SpecReport == InitReport /\ [][ReportExecute]_vars

(* ------------------------------- claims -------------------------------- *)
IsCreateSample(r) == r.op = "create_sample"
Failure(r, code) == r.outcome = "return" /\ ~r.env.success /\ r.env.code = code
ValidTitle(t) == Truthy(t) /\ Len(t) <= MaxTitleLen
Calls(r, f) == \E i \in 1..Len(r.calls) : r.calls[i] = f

\* C1: whenever the actor lacks the "create" capability, create_sample returns
\* a Failure envelope whose code is PERMISSION_DENIED.
C1_DeniedGivesPermissionDenied ==
    (IsCreateSample(res) /\ ~res.has) => Failure(res, ERROR_CODES["PERMISSION_DENIED"])

\* C2: a create_sample call by an actor without the "create" capability, for
\* any title and status, never reaches create_sample_doc and leaves the
\* Sample Doc table as it was.
C2_DeniedHasNoEffect ==
    [][(IsCreateSample(res') /\ ~res'.has) =>
          (docs' = docs /\ ~Calls(res', "create_sample_doc") /\ ~res'.hook)]_vars
C2_Witness ==
    /\ IsCreateSample(res) /\ ~res.has /\ res.title = <<>>
    /\ res.calls = <<"require_permission">>
    /\ Len(docs) > 0

\* C3: with the capability and a title that is None or "", create_sample
\* returns Failure with code VALIDATION_ERROR, does not raise, and no record
\* is persisted.
C3_EmptyTitleGivesValidationError ==
    [][(IsCreateSample(res') /\ res'.has /\ ~Truthy(res'.title)) =>
          (Failure(res', ERROR_CODES["VALIDATION_ERROR"]) /\ docs' = docs)]_vars

\* C4 as stated: with the capability and a non-empty title of at most 255
\* characters, create_sample returns Success with the name of a record that
\* is now persisted, exactly one record is added, and it carries the given
\* title and status ("Open" when no status is supplied).
C4Created(r, before, after) ==
    /\ r.outcome = "return" /\ r.env.success
    /\ r.env.data.name # NoName
    /\ Len(after) = Len(before) + 1
    /\ SubSeq(after, 1, Len(before)) = before
    /\ r.env.data.name = Len(after)
    /\ after[r.env.data.name].title = r.title
    /\ after[r.env.data.name].status = (IF r.status = Unset THEN "Open" ELSE r.status)
C4_ValidTitleCreates ==
    [][(IsCreateSample(res') /\ res'.has /\ ValidTitle(res'.title)) =>
          C4Created(res', docs, docs')]_vars
\* C4 amended: the same, provided the database write of the insert succeeds.
C4_ValidTitleCreatesWhenStored ==
    [][(IsCreateSample(res') /\ res'.has /\ ValidTitle(res'.title) /\ res'.dbOk) =>
          C4Created(res', docs, docs')]_vars
C4_Witness ==
    /\ IsCreateSample(res) /\ res.has /\ res.title = T255 /\ res.status = Unset
    /\ res.outcome = "return" /\ res.env.success
    /\ Len(docs) = 2 /\ docs[2].status = "Open" /\ docs[2].title = T255

\* C5: every create_sample call returns exactly one envelope, Success or
\* Failure with a catalogue code, whatever the collaborators answer, the
\* error log included; a failure that is neither a permission error nor a
\* validation error gives Failure with code APP_ERROR.
C5_AlwaysOneEnvelope ==
    IsCreateSample(res) =>
        /\ res.outcome = "return"
        /\ res.env.success \/ res.env.code \in {ERROR_CODES[k] : k \in DOMAIN ERROR_CODES}
        /\ (/\ res.tryExc # NoExc
            /\ ~IsInstance(res.tryExc.cls, "PermissionError")
            /\ ~IsInstance(res.tryExc.cls, "ValidationError"))
           => Failure(res, ERROR_CODES["APP_ERROR"])

\* C6: the validate hook and record creation both reject a title that is
\* empty or longer than 255 characters, so every persisted Sample Doc has a
\* non-empty title of at most 255 characters, whatever sequence of
\* create_sample, create_sample_doc and run_sample_job has run.
C6_PersistedTitlesValid ==
    /\ \A i \in 1..Len(docs) : ValidTitle(docs[i].title)
    /\ \A t \in TitleArgs : ~ValidTitle(t) => validate(t) # NoExc
    /\ (res.op \in {"create_sample", "create_sample_doc"} /\ ~ValidTitle(res.title)) =>
          \/ res.outcome = "raise"
          \/ ~res.env.success
C6_Witness ==
    /\ res.op = "create_sample_doc" /\ res.title = T256 /\ res.hook
    /\ res.outcome = "raise"
    /\ \E i \in 1..Len(docs) : docs[i].status = "Closed"

\* C7: execute returns exactly the rows at positions (p-1)*L+1 .. p*L of the
\* filtered, modified-descending result set, with p = page when page >= 1 and
\* 1 otherwise, L = page_length when page_length >= 1 and 20 otherwise.
C7P(f) == IF "page" \in DOMAIN f /\ f["page"] >= 1 THEN f["page"] ELSE 1
C7L(f) == IF "page_length" \in DOMAIN f /\ f["page_length"] >= 1
          THEN f["page_length"] ELSE 20
C7_PageIsTheSlice ==
    res.op = "execute" =>
        LET p == C7P(res.filters)
            L == C7L(res.filters)
            want == {k \in 1..Len(res.rows) : (p - 1) * L + 1 <= k /\ k <= p * L}
        IN  /\ Len(res.data) = Cardinality(want)
            /\ \A k \in want : res.data[k - (p - 1) * L] = res.rows[k]
C7_Witness ==
    /\ res.op = "execute"
    /\ "page" \in DOMAIN res.filters /\ res.filters["page"] = 2
    /\ "page_length" \in DOMAIN res.filters /\ res.filters["page_length"] = 5
    /\ Len(res.rows) >= 10 /\ Len(res.data) = 5
    /\ res.data[1] = res.rows[6] /\ res.data[5] = res.rows[10]

\* C8: the "Total Records" value is the number of records that match the
\* status and title filters, the same for every page and page_length, and
\* execute changes no record.
C8Matches(row, f) ==
    /\ ("status" \in DOMAIN f /\ f["status"] # "") => row.status = f["status"]
    /\ ("title" \in DOMAIN f /\ f["title"] # <<>>) =>
          Like(row.title, <<"%">> \o f["title"] \o <<"%">>)
C8_TotalIsMatchCount ==
    [][res'.op = "execute" =>
          /\ docs' = docs
          /\ Len(res'.report_summary) = 1
          /\ res'.report_summary[1].label = "Total Records"
          /\ res'.report_summary[1].value =
                Cardinality({i \in 1..Len(docs) : C8Matches(docs[i], res'.filters)})
          /\ res'.report_summary[1].value = Len(res'.rows)]_vars
C8_Witness ==
    /\ res.op = "execute"
    /\ "title" \in DOMAIN res.filters /\ res.filters["title"] = <<"a">>
    /\ "status" \in DOMAIN res.filters /\ res.filters["status"] = "Open"
    /\ "page_length" \in DOMAIN res.filters /\ res.filters["page_length"] = 5
    /\ res.report_summary[1].value > Len(res.data)
    /\ res.report_summary[1].value < Len(docs)

\* C9: fetch_status sends no request for an empty external_id and fails; for
\* a non-empty one it sends exactly one request, and on a timeout, a transport
\* failure or a non-2xx status the failure is logged before fetch_status fails
\* with an INTEGRATION_ERROR error, so a value is returned only after a
\* successful response.
C9Success(http) == http.kind = "response" /\ http.status >= 200 /\ http.status < 300
C9_FetchStatusContract ==
    res.op = "fetch_status" =>
        /\ ~Truthy(res.external_id) => (res.requests = 0 /\ res.outcome = "raise")
        /\ Truthy(res.external_id) => res.requests = 1
        /\ (Truthy(res.external_id) /\ ~C9Success(res.http)) =>
              /\ res.logged = <<"Integration fetch failed">>
              /\ res.outcome = "raise"
              /\ Head(res.exc.msg) = ERROR_CODES["INTEGRATION_ERROR"]
        /\ res.outcome = "return" => C9Success(res.http)

\* C10: enqueue_sample_job changes no record and adds one pending job on
\* queue "default"; a worker running the job for an existing record sets that
\* record's status to "Closed", leaving its title and every other record
\* alone and never invoking the validate hook; a job for a missing record
\* fails and changes nothing; and with fair workers a queued job for an
\* existing record leads to that record being "Closed".
C10Enqueue ==
    res'.op = "enqueue_sample_job" =>
        /\ res'.outcome = "return"
        /\ docs' = docs
        /\ Len(queue') = Len(queue) + 1
        /\ SubSeq(queue', 1, Len(queue)) = queue
        /\ queue'[Len(queue')].queue = "default"
        /\ queue'[Len(queue')].docname = res'.docname
\* The step in which worker w finishes run_sample_job for the record it loaded.
C10Finishes(w) == wk[w].pc = "loaded" /\ wk'[w].pc = "idle"
C10Run ==
    \A w \in Workers : C10Finishes(w) =>
        LET n == wk[w].docname
        IN  /\ Exists(docs, n)
            /\ Len(docs') = Len(docs)
            /\ docs'[n].status = "Closed"
            /\ docs'[n].title = docs[n].title
            /\ \A m \in 1..Len(docs) : m # n => docs'[m] = docs[m]
            /\ ~res'.hook
\* The step in which a worker takes a job whose record does not exist.
C10Missing ==
    (/\ res'.op = "run_sample_job" /\ res'.step = "get_doc"
     /\ queue # <<>> /\ queue' = Tail(queue) /\ ~Exists(docs, Head(queue).docname)) =>
        (res'.outcome = "raise" /\ docs' = docs /\ wk' = wk)
C10Queued(n) == \E i \in 1..Len(queue) : queue[i].docname = n
C10_JobClosesRecord ==
    /\ [][C10Enqueue /\ C10Run /\ C10Missing]_vars
    /\ \A n \in DocNames :
          (Exists(docs, n) /\ C10Queued(n)) ~> (Exists(docs, n) /\ docs[n].status = "Closed")
C10_Witness ==
    /\ res.op = "run_sample_job" /\ res.step = "db_set"
    /\ Len(docs) = 2 /\ docs[1].status = "Closed" /\ docs[2].status = "Open"
    /\ \E w \in Workers : wk[w].pc = "loaded" /\ wk[w].docname = 2
    /\ queue # <<>>
====
